---- MODULE Spec2Model ----
(***************************************************************************)
(* State-machine model of simulation/simulation.cpp: discovery of the      *)
(* staging_* job folders, the OpenMP dynamic parallel loop over them,      *)
(* run_simulation for each job, and the aggregation of the job statuses    *)
(* into the value main returns.                                            *)
(*                                                                         *)
(* Strings are sequences of character codes.  The file system is the set   *)
(* of entries of the staging root, and for every job folder its            *)
(* completed.flag and which of the ten .mat files it holds.  File-system   *)
(* calls succeed (the ofstream that writes completed.flag is not checked   *)
(* by the code and is taken to create the file).                           *)
(***************************************************************************)
EXTENDS Integers, Sequences, FiniteSets, TLC

\* ---------------------------------------------------------------- bounds
MaxEntries == 2      \* entries in the staging root at most
MaxThreads == 2      \* largest thread count given as argv[1]
MaxRuns == 2         \* successive runs of the executable on the same tree

\* ------------------------------------------------------ program constants
DefaultThreads == 4
NumRoles == 10
PrefixLen == 8

Roles == 1..NumRoles

\* "staging_"
StagingPrefix == <<115, 116, 97, 103, 105, 110, 103, 95>>

\* fs::current_path(), one fixed working directory: "/w"
CurrentPath == <<47, 119>>

\* current_path + "/" + "data_lake/staging/"
Directory ==
  CurrentPath \o <<47>> \o
  <<100, 97, 116, 97, 95, 108, 97, 107, 101, 47, 115, 116, 97, 103, 105, 110, 103, 47>>

\* ----------------------------------------------------------- input sets
\* Entries the staging root may hold: the directories staging_a, staging_
\* (empty hash), staging_' (a quote in the name) and tmp, and the regular
\* file staging_f.
Candidates ==
  { [name |-> StagingPrefix \o <<97>>, isDir |-> TRUE],
    [name |-> StagingPrefix,           isDir |-> TRUE],
    [name |-> StagingPrefix \o <<39>>, isDir |-> TRUE],
    [name |-> <<116, 109, 112>>,       isDir |-> TRUE],
    [name |-> StagingPrefix \o <<102>>, isDir |-> FALSE] }

Snapshots == { s \in SUBSET Candidates : Cardinality(s) <= MaxEntries }

\* Which .mat files a job folder lacks (7 is Wells_).
MissingChoices == { {}, {7} }

\* argv when a thread count is given: argv[1] is its decimal digit
ArgChoices == { << <<48 + n>> >> : n \in 1..MaxThreads }

\* What std::system may return: 0, 256 (child exited with code 1), 9 (child
\* killed by signal 9)
EngineStatuses == { 0, 256, 9 }

\* ------------------------------------------------------- pure functions
\* std::string operator<
RECURSIVE LexLess(_, _)
LexLess(a, b) ==
  IF b = <<>> THEN FALSE
  ELSE IF a = <<>> THEN TRUE
  ELSE IF Head(a) # Head(b) THEN Head(a) < Head(b)
  ELSE LexLess(Tail(a), Tail(b))

\* dirname.rfind("staging_", 0) == 0
HasPrefix(dirname) ==
  /\ Len(dirname) >= Len(StagingPrefix)
  /\ SubSeq(dirname, 1, Len(StagingPrefix)) = StagingPrefix

\* std::stoi on a string of decimal digits
RECURSIVE Stoi(_)
Stoi(s) ==
  IF s = <<>> THEN 0
  ELSE 10 * Stoi(SubSeq(s, 1, Len(s) - 1)) + (s[Len(s)] - 48)

ThreadCountDefault(args) == DefaultThreads

\* threads = 4; if (argc > 1) threads = std::stoi(argv[1]);
ThreadCount(args) ==
  IF Len(args) > 0 THEN Stoi(args[1]) ELSE DefaultThreads

\* fs::path(folder).filename().string()
Filename(path) ==
  LET slashes == { i \in 1..Len(path) : path[i] = 47 }
      last == IF slashes = {} THEN 0
              ELSE CHOOSE i \in slashes : \A j \in slashes : j <= i
  IN  SubSeq(path, last + 1, Len(path))

\* baseName.substr(8)
Hash(baseName) == SubSeq(baseName, PrefixLen + 1, Len(baseName))

\* param_files: Paths_, PreProcessing_, Grid_, Fluid_, InitialConditions_,
\* BoundaryConditions_, Wells_, Schedule_, EXECUTION_, SimNums_
ParamFiles ==
  << <<80, 97, 116, 104, 115, 95>>,
     <<80, 114, 101, 80, 114, 111, 99, 101, 115, 115, 105, 110, 103, 95>>,
     <<71, 114, 105, 100, 95>>,
     <<70, 108, 117, 105, 100, 95>>,
     <<73, 110, 105, 116, 105, 97, 108, 67, 111, 110, 100, 105, 116, 105, 111, 110, 115, 95>>,
     <<66, 111, 117, 110, 100, 97, 114, 121, 67, 111, 110, 100, 105, 116, 105, 111, 110, 115, 95>>,
     <<87, 101, 108, 108, 115, 95>>,
     <<83, 99, 104, 101, 100, 117, 108, 101, 95>>,
     <<69, 88, 69, 67, 85, 84, 73, 79, 78, 95>>,
     <<83, 105, 109, 78, 117, 109, 115, 95>> >>

\* lines 63-65: baseName, hash and file_path for the role r
FilePath(folder, r) ==
  LET baseName == Filename(folder)
      hash == Hash(baseName)
  IN  folder \o <<47>> \o ParamFiles[r] \o hash \o <<46, 109, 97, 116>>

\* the loop over param_files up to role r: command += "'" + file_path + "', "
RECURSIVE AppendArgs(_, _)
AppendArgs(folder, r) ==
  IF r = 0 THEN <<>>
  ELSE AppendArgs(folder, r - 1) \o <<39>> \o FilePath(folder, r) \o <<39, 44, 32>>

\* octave --eval "addpath('<current_dir>/simulation'); co2lab3DPUMLE(
CommandHead ==
  <<111, 99, 116, 97, 118, 101, 32, 45, 45, 101, 118, 97, 108, 32, 34, 97, 100, 100, 112, 97, 116, 104, 40, 39>> \o
  CurrentPath \o
  <<47, 115, 105, 109, 117, 108, 97, 116, 105, 111, 110, 39, 41, 59, 32>> \o
  <<99, 111, 50, 108, 97, 98, 51, 68, 80, 85, 77, 76, 69, 40>>

\* the command line run_simulation hands to std::system for a folder
\* (lines 48-76): head, the ten quoted paths, the last ", " popped, and )"
Command(folder) ==
  LET body == CommandHead \o AppendArgs(folder, NumRoles)
  IN  SubSeq(body, 1, Len(body) - 2) \o <<41, 34>>

\* the directory_iterator loop: keeps, in iteration order, the paths of the
\* directories whose name starts with "staging_"
RECURSIVE Scan(_)
Scan(ord) ==
  IF ord = <<>> THEN <<>>
  ELSE LET entry == Head(ord)
       IN  IF entry.isDir /\ HasPrefix(entry.name)
           THEN <<Directory \o entry.name>> \o Scan(Tail(ord))
           ELSE Scan(Tail(ord))

\* the orders in which directory_iterator may enumerate a directory
Orders(S) ==
  { f \in [1..Cardinality(S) -> S] : \A i, j \in 1..Cardinality(S) : i # j => f[i] # f[j] }

\* the exit status the operating system reports for a value returned by main
OsExitCode(ret) == ret % 256

\* names of the job folders of a snapshot
JobNames(S) == { e.name : e \in { x \in S : x.isDir /\ HasPrefix(x.name) } }

\* names of the directories of a snapshot
DirNames(S) == { e.name : e \in { x \in S : x.isDir } }

\* --------------------------------------------------------------- state
VARIABLES
  rootExists,    \* data_lake/staging/ exists
  entries,       \* entries of data_lake/staging/
  marker,        \* marker[d]: d/completed.flag exists, for every directory d of the root
  present,       \* present[d]: roles r whose file <role><hash>.mat exists in d
  scriptExists,  \* simulation/co2lab3DPUMLE.m exists
  argv,          \* command-line arguments after the program name
  run,           \* number of the current run
  mainpc,        \* "start", "parallel", "exit"
  folders,       \* main: vector folders
  threads,       \* main: threads
  global_status, \* main: global_status
  next,          \* index of the next unclaimed loop iteration (1-based)
  lock,          \* holder of the omp critical section, 0 when free
  wpc,           \* per thread: "idle", "system", "returned", "critical"
  wjob,          \* per thread: loop index i it holds (1-based), 0 for none
  wstatus,       \* per thread: status
  wcmd,          \* per thread: command, while std::system runs it
  exitCode,      \* value returned from main, -1 while running
  startMarker,   \* history: marker as it was when the run started
  claimed,       \* history: claimed[d] times d was claimed in this run
  invoked,       \* history: invoked[d] times std::system was called for d in this run
  result,        \* history: result[d] statuses run_simulation returned for d in this run
  prevOk,        \* history: the previous run returned 0 from run_simulation for every job
  prevInvoked,   \* history: the folders the previous run called std::system for
  prevFailed,    \* history: the folders run_simulation failed for in the previous run
  everZero,      \* history: the folders std::system returned 0 for in an earlier run
  recorded       \* history: the statuses written to global_status in this run, in order

fsvars == <<rootExists, entries, marker, present, scriptExists>>
mainvars == <<argv, run, mainpc, folders, threads, global_status, exitCode>>
poolvars == <<next, lock, wpc, wjob, wstatus, wcmd>>
histvars ==
  <<startMarker, claimed, invoked, result, prevOk, prevInvoked, prevFailed, everZero, recorded>>
vars == <<fsvars, mainvars, poolvars, histvars>>

Workers == 1..threads
Jobs == JobNames(entries)
Dirs == DirNames(entries)
JobOf(w) == Filename(folders[wjob[w]])

\* ------------------------------------------------------------- initial
InitWith(snaps, missing, args) ==
  /\ rootExists \in BOOLEAN
  /\ entries \in (IF rootExists THEN snaps ELSE { {} })
  /\ marker \in [DirNames(entries) -> BOOLEAN]
  /\ present \in [JobNames(entries) -> { Roles \ m : m \in missing }]
  /\ scriptExists \in BOOLEAN
  /\ argv \in args
  /\ run = 1
  /\ mainpc = "start"
  /\ folders = <<>>
  /\ threads = 0
  /\ global_status = 0
  /\ next = 1
  /\ lock = 0
  /\ wpc = <<>>
  /\ wjob = <<>>
  /\ wstatus = <<>>
  /\ wcmd = <<>>
  /\ exitCode = -1
  /\ startMarker = marker
  /\ claimed = [d \in DirNames(entries) |-> 0]
  /\ invoked = [d \in DirNames(entries) |-> 0]
  /\ result = [d \in DirNames(entries) |-> {}]
  /\ prevOk = FALSE
  /\ prevInvoked = {}
  /\ prevFailed = {}
  /\ everZero = {}
  /\ recorded = <<>>

Init == InitWith(Snapshots, MissingChoices, ArgChoices)

\* -------------------------------------------------------------- actions
NoneFoundNever(found) == FALSE

SortFoldersNone(found) == found

\* std::sort(folders.begin(), folders.end()), line 120
SortFolders(found) == SortSeq(found, LexLess)

\* folders.empty(), line 114
NoneFound(found) == found = <<>>

\* main, lines 95-134: create the root if absent, scan it, stop with 1 when
\* no folder was found, else sort, read the thread count, global_status = 0
\* and enter the parallel loop.
Discover ==
  /\ mainpc = "start"
  /\ rootExists' = TRUE
  /\ \E ord \in Orders(entries) :
       LET found == Scan(ord)
       IN  IF NoneFound(found)
           THEN /\ mainpc' = "exit"
                /\ exitCode' = 1
                /\ UNCHANGED <<folders, threads, global_status, poolvars>>
           ELSE /\ folders' = SortFolders(found)
                /\ threads' = ThreadCount(argv)
                /\ global_status' = 0
                /\ next' = 1
                /\ lock' = 0
                /\ wpc' = [w \in 1..ThreadCount(argv) |-> "idle"]
                /\ wjob' = [w \in 1..ThreadCount(argv) |-> 0]
                /\ wstatus' = [w \in 1..ThreadCount(argv) |-> 0]
                /\ wcmd' = [w \in 1..ThreadCount(argv) |-> <<>>]
                /\ mainpc' = "parallel"
                /\ UNCHANGED exitCode
  /\ UNCHANGED <<entries, marker, present, scriptExists, argv, run, histvars>>

FirstMissingShort(d) ==
  IF (Roles \ {NumRoles}) \subseteq present[d] THEN 0
  ELSE CHOOSE r \in Roles \ present[d] : \A q \in Roles \ present[d] : r <= q

\* the first role whose file is absent from the folder, 0 if none: the loop
\* over param_files returns at the first missing file
FirstMissing(d) ==
  IF Roles \subseteq present[d] THEN 0
  ELSE CHOOSE r \in Roles \ present[d] : \A q \in Roles \ present[d] : r <= q

PreStatusNoSkip(d) ==
  IF ~scriptExists THEN 1
  ELSE IF FirstMissing(d) # 0 THEN 1
  ELSE -1

PreStatusNoScript(d) ==
  IF marker[d] THEN 0
  ELSE IF FirstMissing(d) # 0 THEN 1
  ELSE -1

\* what run_simulation returns before it reaches std::system, and -1 when it
\* reaches std::system (lines 13-78)
PreStatus(d) ==
  IF marker[d] THEN 0
  ELSE IF ~scriptExists THEN 1
  ELSE IF FirstMissing(d) # 0 THEN 1
  ELSE -1

AfterReturnAlways(st) == "returned"

\* where a thread stands once run_simulation has returned st (lines 139-141):
\* back at the top of the loop for 0, before the critical section otherwise
AfterReturn(st) == IF st # 0 THEN "returned" ELSE "idle"

MoreWorkFailFast == next <= Len(folders) /\ global_status = 0

\* the loop condition i < num_simulations for the next unclaimed iteration
MoreWork == next <= Len(folders)

MayClaimStatic(w, i) == (i - 1) % threads = w - 1

\* schedule(dynamic): iteration i goes to whichever thread asks first; no
\* iteration is reserved for a thread
MayClaim(w, i) == TRUE

AdvanceTwo(n) == n + 2

\* schedule(dynamic) without a chunk size hands out one iteration at a time
Advance(n) == n + 1

\* schedule(dynamic), lines 136-138, and run_simulation, lines 13-79: a free
\* thread takes the next unclaimed iteration i and calls
\* run_simulation(folders[i]), which skips a folder with completed.flag,
\* fails when the script or one of the ten files is missing, and else calls
\* std::system. The checks read only the script and the job's own folder.
Claim(w) ==
  /\ mainpc = "parallel"
  /\ wpc[w] = "idle"
  /\ MoreWork
  /\ MayClaim(w, next)
  /\ next' = Advance(next)
  /\ LET d == Filename(folders[next])
         st == PreStatus(d)
     IN  /\ claimed' = [claimed EXCEPT ![d] = @ + 1]
         /\ IF st # -1
            THEN /\ wpc' = [wpc EXCEPT ![w] = AfterReturn(st)]
                 /\ wjob' = [wjob EXCEPT ![w] = IF st # 0 THEN next ELSE 0]
                 /\ wstatus' = [wstatus EXCEPT ![w] = st]
                 /\ result' = [result EXCEPT ![d] = @ \cup {st}]
                 /\ UNCHANGED <<invoked, wcmd>>
            ELSE /\ wpc' = [wpc EXCEPT ![w] = "system"]
                 /\ wjob' = [wjob EXCEPT ![w] = next]
                 /\ wcmd' = [wcmd EXCEPT ![w] = Command(folders[next])]
                 /\ invoked' = [invoked EXCEPT ![d] = @ + 1]
                 /\ UNCHANGED <<wstatus, result>>
  /\ UNCHANGED <<fsvars, mainvars, lock, startMarker, prevOk, prevInvoked, prevFailed,
                 everZero, recorded>>

WriteFlagAll(d, status) ==
  IF status # 0 THEN marker ELSE [e \in DOMAIN marker |-> TRUE]

WriteFlagNever(d, status) == marker

WriteFlagAlways(d, status) == [marker EXCEPT ![d] = TRUE]

\* run_simulation, lines 80-88: completed.flag of folder d after std::system
\* returned status; it is written only after a status of 0
WriteFlag(d, status) ==
  IF status # 0 THEN marker ELSE [marker EXCEPT ![d] = TRUE]

\* run_simulation, lines 79-90: std::system returns; a non-zero status is
\* returned as it is, on 0 completed.flag is written and 0 returned
SystemReturns(w) ==
  /\ mainpc = "parallel"
  /\ wpc[w] = "system"
  /\ \E status \in EngineStatuses :
       LET d == JobOf(w)
       IN  /\ marker' = WriteFlag(d, status)
           /\ wstatus' = [wstatus EXCEPT ![w] = status]
           /\ wjob' = [wjob EXCEPT ![w] = IF status # 0 THEN @ ELSE 0]
           /\ wpc' = [wpc EXCEPT ![w] = AfterReturn(status)]
           /\ result' = [result EXCEPT ![d] = @ \cup {status}]
  /\ wcmd' = [wcmd EXCEPT ![w] = <<>>]
  /\ UNCHANGED <<rootExists, entries, present, scriptExists, mainvars, next, lock,
                 startMarker, claimed, invoked, prevOk, prevInvoked, prevFailed, everZero,
                 recorded>>

LockFreeAlways == TRUE

\* #pragma omp critical, line 140: a thread enters only while no thread is
\* inside
LockFree == lock = 0

\* loop body, lines 139-141: status != 0, enter the critical section
EnterCritical(w) ==
  /\ mainpc = "parallel"
  /\ wpc[w] = "returned"
  /\ LockFree
  /\ lock' = w
  /\ wpc' = [wpc EXCEPT ![w] = "critical"]
  /\ UNCHANGED <<fsvars, mainvars, next, wjob, wstatus, wcmd, histvars>>

NewStatusFirst(old, status) == IF old # 0 THEN old ELSE status

NewStatusFlag(old, status) == 1

\* global_status = status, line 142: the value global_status holds after the
\* assignment, given the one it held before
NewStatus(old, status) == status

\* loop body, lines 142-144: global_status = status, leave the critical
\* section; the iteration ends and status goes out of scope
Record(w) ==
  /\ mainpc = "parallel"
  /\ wpc[w] = "critical"
  /\ global_status' = NewStatus(global_status, wstatus[w])
  /\ recorded' = Append(recorded, wstatus[w])
  /\ lock' = 0
  /\ wpc' = [wpc EXCEPT ![w] = "idle"]
  /\ wjob' = [wjob EXCEPT ![w] = 0]
  /\ wstatus' = [wstatus EXCEPT ![w] = 0]
  /\ UNCHANGED <<fsvars, argv, run, mainpc, folders, threads, exitCode, next, wcmd,
                 startMarker, claimed, invoked, result, prevOk, prevInvoked, prevFailed,
                 everZero>>

\* the barrier that ends the parallel loop: no iteration is left and every
\* thread has finished its last one
AtBarrier == ~MoreWork /\ \A w \in Workers : wpc[w] = "idle"

\* main, lines 147-153: past the barrier, return global_status when it is
\* not 0, else 0
Join ==
  /\ mainpc = "parallel"
  /\ AtBarrier
  /\ exitCode' = IF global_status # 0 THEN global_status ELSE 0
  /\ mainpc' = "exit"
  /\ UNCHANGED <<fsvars, argv, run, folders, threads, global_status, poolvars, histvars>>

\* the executable is started again on the same tree, with any thread count
Restart ==
  /\ mainpc = "exit"
  /\ run < MaxRuns
  /\ run' = run + 1
  /\ argv' \in ArgChoices
  /\ mainpc' = "start"
  /\ folders' = <<>>
  /\ threads' = 0
  /\ global_status' = 0
  /\ next' = 1
  /\ lock' = 0
  /\ wpc' = <<>>
  /\ wjob' = <<>>
  /\ wstatus' = <<>>
  /\ wcmd' = <<>>
  /\ exitCode' = -1
  /\ startMarker' = marker
  /\ claimed' = [d \in Dirs |-> 0]
  /\ invoked' = [d \in Dirs |-> 0]
  /\ result' = [d \in Dirs |-> {}]
  /\ prevOk' = (folders # <<>> /\ \A d \in Jobs : result[d] = {0})
  /\ prevInvoked' = { d \in Jobs : invoked[d] > 0 }
  /\ prevFailed' = { d \in Jobs : result[d] \ {0} # {} }
  /\ everZero' = everZero \cup { d \in Jobs : invoked[d] > 0 /\ 0 \in result[d] }
  /\ recorded' = <<>>
  /\ UNCHANGED fsvars

Next ==
  \/ Discover
  \/ \E w \in Workers : Claim(w)
  \/ \E w \in Workers : SystemReturns(w)
  \/ \E w \in Workers : EnterCritical(w)
  \/ \E w \in Workers : Record(w)
  \/ Join
  \/ Restart

Spec == Init /\ [][Next]_vars

\* One job folder, with every combination of its ten files present or absent
InitFiles ==
  InitWith({ {c} : c \in { x \in Candidates : x.name = StagingPrefix \o <<97>> } },
           SUBSET Roles, ArgChoices)

SpecFiles == InitFiles /\ [][Next]_vars

\* a step of the running executable: every step but a new start of it
Progress ==
  \/ Discover
  \/ \E w \in Workers : Claim(w)
  \/ \E w \in Workers : SystemReturns(w)
  \/ \E w \in Workers : EnterCritical(w)
  \/ \E w \in Workers : Record(w)
  \/ Join

\* The threads are scheduled and every std::system call returns: while the
\* executable can take a step, it takes one. Nobody has to start it again.
Fairness == WF_vars(Progress)

\* The first run with or without a thread count on its command line; roots
\* that hold job folders only, with all their files
InitDefault ==
  InitWith({ s \in Snapshots : \A e \in s : e.isDir /\ HasPrefix(e.name) },
           { {} }, { <<>> } \cup ArgChoices)

SpecDefault == InitDefault /\ [][Next]_vars

\* Roots that hold job folders only: what else a root holds is dropped by
\* the scan and plays no part in the parallel loop
InitJobsOnly ==
  InitWith({ s \in Snapshots : \A e \in s : e.isDir /\ HasPrefix(e.name) },
           MissingChoices, ArgChoices)

\* one run of the executable, under fairness
FairSpec == InitJobsOnly /\ [][Progress]_vars /\ Fairness

\* ------------------------------------------------------------ properties
\* run_simulation returned a non-zero status for folder d in this run
Failed(d) == result[d] \ {0} # {}

\* the run went through the parallel loop and main has returned
Finished == mainpc = "exit" /\ folders # <<>>

\* C1: once every thread has finished, global_status is 0 if no job failed
\* and non-zero if at least one job failed, for every thread count and
\* interleaving.
C1_AggregationCorrect ==
  ((mainpc = "parallel" /\ AtBarrier) \/ Finished)
    => (global_status = 0 <=> \A d \in Jobs : ~Failed(d))

C1_Witness ==
  /\ Finished
  /\ threads = 2
  /\ Len(folders) = 2
  /\ \E d, e \in Jobs : Failed(d) /\ invoked[e] = 1 /\ result[e] = {0}
  /\ global_status # 0

\* C2: the exit code the operating system observes (the value main returns
\* modulo 256) is 0 if every job succeeded or was already complete and
\* non-zero if any job failed.
C2_OsExitCode ==
  Finished => (OsExitCode(exitCode) = 0 <=> \A d \in Jobs : ~Failed(d))

\* C3: a folder that holds completed.flag when a thread starts on it is not
\* handed to the engine in this run and contributes status 0; until it is
\* claimed its flag is the one the run started with.
C3_NoReinvoke ==
  \A d \in Jobs :
    /\ claimed[d] = 0 => marker[d] = startMarker[d]
    /\ startMarker[d] =>
         /\ invoked[d] = 0
         /\ result[d] \subseteq {0}
         /\ claimed[d] > 0 => result[d] = {0}

C3_Witness ==
  /\ Finished
  /\ scriptExists
  /\ \E d \in Jobs :
       startMarker[d] /\ present[d] = Roles /\ claimed[d] = 1 /\ result[d] = {0}

\* C4: a run that follows a run in which every job succeeded calls the engine
\* for no job and ends with final code 0, whatever the thread counts.
C4_Idempotent ==
  prevOk =>
    /\ \A d \in Jobs : invoked[d] = 0
    /\ global_status = 0
    /\ mainpc = "exit" => exitCode = 0

C4_Witness ==
  /\ prevOk
  /\ prevInvoked # {}
  /\ Finished
  /\ \A d \in Jobs : claimed[d] = 1

\* C5: a folder without completed.flag that lacks any of its ten files is
\* never handed to the engine, fails with a non-zero status, gets no
\* completed.flag, and makes the run end non-zero.
C5_MissingFile ==
  \A d \in Jobs :
    (~startMarker[d] /\ present[d] # Roles) =>
      /\ invoked[d] = 0
      /\ ~marker[d]
      /\ claimed[d] > 0 => result[d] = {1}
      /\ Finished => (global_status # 0 /\ exitCode # 0)

C5_Witness ==
  /\ Finished
  /\ scriptExists
  /\ \E d \in Jobs :
       ~startMarker[d] /\ present[d] = Roles \ {NumRoles} /\ result[d] = {1}

\* C6: every discovered folder is claimed by exactly one thread: never
\* twice, never by two threads at once, and none is left unclaimed when the
\* run ends.
C6_ExactlyOnce ==
  /\ \A d \in Jobs : claimed[d] <= 1
  /\ \A v, w \in Workers : (v # w /\ wjob[v] # 0) => wjob[v] # wjob[w]
  /\ Finished => \A d \in Jobs : claimed[d] = 1

C6_Witness ==
  /\ mainpc = "parallel"
  /\ ~MoreWork
  /\ \E v, w \in Workers :
       v # w /\ wpc[v] = "system" /\ wpc[w] = "system" /\ wjob[v] # wjob[w]

\* C7: under fair scheduling, with every engine process terminating, a run
\* that entered the parallel loop ends with every discovered folder having
\* reached an outcome (skipped, completed or failed), whatever failed on
\* the way.
C7_NoFailFast ==
  (mainpc = "parallel") ~> (mainpc = "exit" /\ \A d \in Jobs : result[d] # {})

C7_Witness ==
  /\ Finished
  /\ Len(folders) = 2
  /\ Failed(Filename(folders[1]))
  /\ invoked[Filename(folders[2])] = 1
  /\ result[Filename(folders[2])] = {0}

\* C8: completed.flag exists only if it existed when the run started or the
\* engine returned 0 for that folder in this run; a folder whose engine call
\* returned 0 has its flag once the thread is done with it; no step removes
\* a flag.
C8_MarkerOnlyOnComplete ==
  /\ [](\A d \in Dirs : marker[d] => (startMarker[d] \/ (invoked[d] > 0 /\ 0 \in result[d])))
  /\ [](\A d \in Dirs : (invoked[d] > 0 /\ 0 \in result[d]) => marker[d])
  /\ [][\A d \in DOMAIN marker : marker[d] => marker'[d]]_vars

C8_Witness ==
  \E d, e \in Jobs :
    /\ marker[d] /\ ~startMarker[d]
    /\ invoked[e] = 1 /\ Failed(e) /\ ~marker[e]

C10_NoJobsFound ==
  Jobs = {} =>
    /\ mainpc # "parallel"
    /\ threads = 0
    /\ wpc = <<>>
    /\ mainpc = "exit" => exitCode = 1
    /\ \A d \in Dirs : invoked[d] = 0 /\ claimed[d] = 0 /\ marker[d] = startMarker[d]

C10_Witness ==
  /\ mainpc = "exit"
  /\ exitCode = 1
  /\ Jobs = {}
  /\ \E e, f \in entries : e.isDir /\ ~f.isDir

\* C11 as stated: the final batch status is the status of the failure that
\* was recorded first; a later recorded failure does not replace it.
C11_FirstWins ==
  (Finished /\ recorded # <<>>) => global_status = recorded[1]

\* C11 amended: the batch status is the status of the failure that was
\* recorded last; every recorded failure replaces the one before it.
C11_LastWins ==
  (mainpc = "parallel" \/ Finished) =>
    global_status = IF recorded = <<>> THEN 0 ELSE recorded[Len(recorded)]

C11_Witness ==
  /\ Finished
  /\ Len(recorded) = 2
  /\ recorded[1] # recorded[2]
  /\ global_status = recorded[2]

\* C12: whatever order the directory iterator enumerates the root in, the
\* job sequence is exactly the directories whose name starts with
\* "staging_", each once, in ascending lexicographic order of path.
C12_DeterministicOrder ==
  /\ (mainpc = "parallel" \/ Finished) =>
       /\ Len(folders) = Cardinality(Jobs)
       /\ { folders[i] : i \in 1..Len(folders) } = { Directory \o d : d \in Jobs }
       /\ \A i, j \in 1..Len(folders) : i < j => LexLess(folders[i], folders[j])
  /\ (mainpc = "exit" /\ ~Finished) => Jobs = {}

C12_Witness ==
  /\ mainpc = "parallel"
  /\ Len(folders) = 2
  /\ next = 1

\* C13: at most one thread is inside the critical section, and while the
\* threads run global_status changes only by the step of a thread that is
\* inside the critical section and leaves it.
C13_MutualExclusion ==
  /\ [](Cardinality({ w \in Workers : wpc[w] = "critical" }) <= 1)
  /\ [][(mainpc = "parallel" /\ mainpc' = "parallel" /\ global_status' # global_status)
          => \E w \in Workers : wpc[w] = "critical" /\ wpc'[w] = "idle"]_vars

C13_Witness ==
  \E v, w \in Workers : v # w /\ wpc[v] = "critical" /\ wpc[w] = "returned"

\* the thread count the command line asks for: argv[1] when given, else 4
Configured == IF Len(argv) > 0 THEN argv[1][1] - 48 ELSE 4

\* folders whose engine process is alive: std::system was called and has
\* not returned
Alive == { d \in Jobs : invoked[d] > 0 /\ result[d] = {} }

\* C14: the number of folders in work at the same time, and so of engine
\* processes alive at the same time, never exceeds the thread count, which
\* is argv[1] when given and 4 otherwise.
C14_BoundedPool ==
  mainpc = "parallel" =>
    /\ threads = Configured
    /\ Cardinality(Alive) <= Configured
    /\ Cardinality({ d \in Jobs : claimed[d] > 0 /\ result[d] = {} }) <= Configured
    /\ Cardinality({ w \in Workers : wpc[w] # "idle" }) <= Configured

C14_Witness ==
  /\ mainpc = "parallel"
  /\ argv = <<>>
  /\ threads = 4
  /\ Cardinality(Alive) = 2

\* a single or a double quote occurs in the string
HasQuote(str) == \E i \in 1..Len(str) : str[i] \in {39, 34}

\* C15: a folder whose path, or one of whose file paths, contains a single
\* or a double quote fails before the engine is called, and no command line
\* holding such a path is handed to std::system.
C15_RejectsQuotes ==
  /\ \A d \in Jobs :
       HasQuote(Directory \o d) =>
         /\ invoked[d] = 0
         /\ (claimed[d] > 0 /\ ~startMarker[d]) => Failed(d)
  /\ \A w \in Workers :
       wpc[w] = "system" => \A r \in Roles : ~HasQuote(FilePath(folders[wjob[w]], r))

\* positions of the single quotes of a command line
QuotePos(cmd) == { i \in 1..Len(cmd) : cmd[i] = 39 }

\* position of the n-th single quote
NthQuote(cmd, n) ==
  CHOOSE i \in QuotePos(cmd) : Cardinality({ j \in QuotePos(cmd) : j <= i }) = n

\* the k-th single-quoted literal of a command line: a literal runs from a
\* quote to the next one
Literal(cmd, k) ==
  SubSeq(cmd, NthQuote(cmd, 2 * k - 1) + 1, NthQuote(cmd, 2 * k) - 1)

\* <folder>/<role><ID>.mat for the directory name d, ID being d without its
\* first 8 characters
RoleFile(d, r) ==
  Directory \o d \o <<47>> \o ParamFiles[r] \o SubSeq(d, 9, Len(d)) \o <<46, 109, 97, 116>>

\* C16: every command line handed to std::system calls co2lab3DPUMLE with
\* exactly 10 quoted arguments, the k-th being <folder>/<role k><ID>.mat in
\* the order of param_files, and every discovered name has at least the 8
\* characters that are stripped to get the ID.
C16_TenArguments ==
  /\ \A d \in Jobs : Len(d) >= 8
  /\ \A w \in Workers :
       wpc[w] = "system" =>
         /\ SubSeq(wcmd[w], 1, Len(CommandHead)) = CommandHead
         /\ SubSeq(wcmd[w], Len(wcmd[w]) - 1, Len(wcmd[w])) = <<41, 34>>
         /\ Cardinality(QuotePos(wcmd[w])) = 2 * (NumRoles + 1)
         /\ \A r \in Roles : Literal(wcmd[w], r + 1) = RoleFile(JobOf(w), r)

\* C17: folders are claimed in ascending index, the claimed ones being
\* exactly those before the next index to hand out; no folder is reserved
\* for a thread, so a thread that is free while a folder is unclaimed can
\* claim it at once, and the loop cannot end before every folder is
\* claimed.
C17_DynamicInOrder ==
  mainpc = "parallel" =>
    /\ \A i \in 1..Len(folders) : (claimed[Filename(folders[i])] > 0) <=> (i < next)
    /\ \A w \in Workers : (wpc[w] = "idle" /\ MoreWork) => ENABLED Claim(w)
    /\ MoreWork => ~ENABLED Join

C17_Witness ==
  /\ mainpc = "parallel"
  /\ threads = 2
  /\ Len(folders) = 2
  /\ next = 2
  /\ result[Filename(folders[1])] # {}
  /\ \A w \in Workers : wpc[w] = "idle"

\* C18: a step that changes a completed.flag is the return of std::system
\* in the thread that holds that very folder, and it only creates the flag;
\* no step changes an input file, the script or the set of folders; two
\* threads never hold the same folder, so no two threads write the same
\* file.
C18_OwnFolderOnly ==
  /\ [](\A w, v \in Workers :
          (w # v /\ wjob[w] # 0 /\ wjob[v] # 0) => wjob[w] # wjob[v])
  /\ [][/\ present' = present
        /\ entries' = entries
        /\ scriptExists' = scriptExists
        /\ \A d \in Dirs :
             marker'[d] # marker[d] =>
               /\ marker'[d]
               /\ \E w \in Workers :
                    wpc[w] = "system" /\ JobOf(w) = d /\ wpc'[w] # "system"]_vars

C18_Witness ==
  /\ mainpc = "parallel"
  /\ \E w, v \in Workers :
       /\ wpc[v] = "system"
       /\ wpc[w] = "idle"
       /\ \E d \in Jobs :
            /\ d # JobOf(v)
            /\ marker[d] /\ ~startMarker[d]
            /\ ~marker[JobOf(v)]
            /\ present[JobOf(v)] = Roles

\* C19: global_status is 0 until a failure is recorded; every write stores
\* the non-zero status held by the thread inside the critical section;
\* once non-zero it stays non-zero for the rest of the run; at the end it
\* is 0 or a non-zero status returned by a job of this run.
C19_Sticky ==
  /\ []((mainpc = "parallel" \/ Finished) =>
          \/ global_status = 0 /\ recorded = <<>>
          \/ /\ recorded # <<>>
             /\ global_status # 0
             /\ \E d \in Jobs : global_status \in result[d] \ {0})
  /\ [][(run' = run /\ global_status # 0) => global_status' # 0]_vars
  /\ [][(mainpc = "parallel" /\ global_status' # global_status) =>
          \E w \in Workers :
            wpc[w] = "critical" /\ wstatus[w] # 0 /\ global_status' = wstatus[w]]_vars

C19_Witness ==
  /\ Finished
  /\ exitCode = 9
  /\ \E d, e \in Jobs : result[d] = {9} /\ result[e] = {0} /\ invoked[e] = 1

\* C20: a job that failed in a run has no completed.flag at the end of it;
\* the next run starts with it unmarked and attempts it again; in every
\* run the engine is invoked only for jobs unmarked at the start of that
\* run; a job whose engine once returned 0 is never invoked in a later run.
C20_FailuresNotRemembered ==
  \A d \in Jobs :
    /\ (Finished /\ Failed(d)) => ~marker[d]
    /\ invoked[d] > 0 => ~startMarker[d]
    /\ d \in everZero => (startMarker[d] /\ invoked[d] = 0)
    /\ d \in prevFailed =>
         /\ ~startMarker[d]
         /\ Finished => (claimed[d] = 1 /\ (invoked[d] = 1 \/ Failed(d)))

C20_Witness ==
  /\ run = 2
  /\ Finished
  /\ \E d \in prevFailed : invoked[d] = 1 /\ result[d] = {0} /\ marker[d]
  /\ \E e \in everZero : claimed[e] = 1 /\ invoked[e] = 0

====
